---- MODULE Spec2Model ----
(***************************************************************************)
(* Task orchestration engine of src/main.py: the front door and the status *)
(* endpoint (with its stale-task watchdog), the media worker               *)
(* (process_unified_task), the upload worker (uploader_process_loop), the  *)
(* result aggregator (result_processor_thread_loop) and its                *)
(* TaskProgressModel, for one submitted task.                              *)
(*                                                                         *)
(* Stage fractions (Python floats in [0,1]) are kept as integers in units  *)
(* of 1/One, so 1.0 is One and 0.01 is One \div 100.                       *)
(***************************************************************************)
EXTENDS Integers, Sequences, FiniteSets, TLC

\* ---------------------------------------------------------------- bounds
MaxChunks == 1          \* chunks a download delivers at most
MaxBatches == 1         \* transcription batches of one task at most
MaxFileChunks == 1      \* 1 MB chunks of an uploaded file at most
MaxResultQueue == 1     \* events in flight on the result queue at most
MaxGroups == 2          \* batches one run of the subtitle pipeline submits at most
MaxLines == 1           \* subtitle lines in one batch's result at most
MaxStartMs == 1         \* largest start_ms of a subtitle line
MaxSubtitles == 2       \* subtitle lines in one validated response at most
MaxOffset == 2          \* largest time offset of a response, in steps of OffsetStep
MaxUnits == 2           \* work units in one batch at most
MaxPoolGroups == 9      \* batches submitted to the pool at most (SpecPool)
MaxWorkUnits == 10      \* work units given to the pipeline at most (SpecBatching)
MaxBatchSize == 10      \* largest batch size tried (SpecBatching)
MaxUpdates == 3         \* component updates fed to the merge (SpecMerge)
MaxAge == 301           \* minutes a task is followed after its last update

\* ------------------------------------------------------ program constants
One == 1000
MAX_STUCK_DURATION == 300
WeightDownload == 20
WeightVideoUpload == 40
WeightSubtitlePipeline == 30
WeightSubtitleUpload == 10
SUBTITLE_CONCURRENT_REQUESTS == 8
max_retries == 3
BackoffBase == 5

Stages == {"download", "video_upload", "subtitle_pipeline", "subtitle_upload"}
Components == {"video", "subtitle"}
TerminalStates == {"SUCCESS", "FAILED", "PARTIAL_SUCCESS"}
ActiveStates == {"QUEUED", "RUNNING"}
ComponentTerminal == {"SUCCESS", "FAILED", "SKIPPED"}

Min(a, b) == IF a < b THEN a ELSE b

VARIABLES
    task,         \* tasks[task_id]: the registry entry of the task
    pm,           \* task_progress_models[task_id]
    taskQueue,    \* TASK_QUEUE
    resultQueue,  \* RESULT_QUEUE
    uploadQueue,  \* UPLOAD_QUEUE
    worker,       \* the media worker process
    uploader,     \* the upload worker process
    tempDir,      \* /kaggle/working/task_<id> exists
    wd,           \* a status request between its staleness check and its write
    obs,          \* observations: what has happened so far
    pipeline,     \* run_subtitle_extraction_pipeline: its executor and locals
    age,          \* minutes from task.updatedAt to now (followed in SpecWatchdog)
    batch         \* one call of _process_subtitle_batch_with_ai

vars == <<task, pm, taskQueue, resultQueue, uploadQueue, worker, uploader,
          tempDir, wd, obs, pipeline, age, batch>>

\* ------------------------------------------------------ TaskProgressModel
PROGRESS_WEIGHTS ==
    [download |-> WeightDownload, video_upload |-> WeightVideoUpload,
     subtitle_pipeline |-> WeightSubtitlePipeline,
     subtitle_upload |-> WeightSubtitleUpload]

\* subtitle_upload weighted whenever upload_subtitle is set
ActiveStagesUnnested(p) ==
    LET s == (IF p.upload_video THEN {"video_upload"} ELSE {})
             \cup (IF p.extract_subtitle THEN {"subtitle_pipeline"} ELSE {})
             \cup (IF p.upload_subtitle THEN {"subtitle_upload"} ELSE {})
    IN  IF s # {} THEN s \cup {"download"} ELSE s

\* the keys of self.active_weights
ActiveStages(p) ==
    LET s == (IF p.upload_video THEN {"video_upload"} ELSE {})
             \cup (IF p.extract_subtitle
                   THEN {"subtitle_pipeline"}
                        \cup (IF p.upload_subtitle THEN {"subtitle_upload"} ELSE {})
                   ELSE {})
    IN  IF s # {} THEN s \cup {"download"} ELSE s

ActiveWeight(p, s) == IF s \in ActiveStages(p) THEN PROGRESS_WEIGHTS[s] ELSE 0

SumActiveWeights(p) ==
    ActiveWeight(p, "download") + ActiveWeight(p, "video_upload")
    + ActiveWeight(p, "subtitle_pipeline") + ActiveWeight(p, "subtitle_upload")

\* the sum of the active weights with no fallback
TotalActiveWeightNoFallback(p) == SumActiveWeights(p)

TotalActiveWeight(p) == IF SumActiveWeights(p) = 0 THEN 100 ELSE SumActiveWeights(p)

NoModel ==
    [exists |-> FALSE, completed_weight |-> 0, completed_stages |-> {},
     last |-> [s \in Stages |-> 0]]

NewModel == [NoModel EXCEPT !.exists = TRUE]

\* the weight added again for a stage that is already completed
MarkStageAgain(m, p, stage) ==
    IF stage \in ActiveStages(p)
    THEN [m EXCEPT !.completed_weight = @ + PROGRESS_WEIGHTS[stage],
                   !.completed_stages = @ \cup {stage}]
    ELSE m

MarkStageAsCompleted(m, p, stage) ==
    IF stage \in ActiveStages(p) /\ stage \notin m.completed_stages
    THEN [m EXCEPT !.completed_weight = @ + PROGRESS_WEIGHTS[stage],
                   !.completed_stages = @ \cup {stage}]
    ELSE m

\* the stage's fraction overwritten whatever the last one was
UpdateStageProgressUnguarded(m, p, stage, percent) ==
    LET m1 == [m EXCEPT !.last[stage] = percent]
    IN  IF percent >= One THEN MarkStageAsCompleted(m1, p, stage) ELSE m1

UpdateStageProgress(m, p, stage, percent) ==
    IF percent >= m.last[stage]
    THEN LET m1 == [m EXCEPT !.last[stage] = percent]
         IN  IF percent >= One THEN MarkStageAsCompleted(m1, p, stage) ELSE m1
    ELSE m

Contribution(m, p, s) ==
    IF s \in ActiveStages(p) /\ s \notin m.completed_stages
    THEN PROGRESS_WEIGHTS[s] * m.last[s]
    ELSE 0

\* the weighted sum of the last fractions of the active stages, not capped
GetTotalProgressUnclamped(m, p) ==
    LET total == ActiveWeight(p, "download") * m.last["download"]
                 + ActiveWeight(p, "video_upload") * m.last["video_upload"]
                 + ActiveWeight(p, "subtitle_pipeline") * m.last["subtitle_pipeline"]
                 + ActiveWeight(p, "subtitle_upload") * m.last["subtitle_upload"]
    IN  (total * 100) \div (TotalActiveWeight(p) * One)

\* int((total_progress / total_active_weight) * 100), capped at 100
GetTotalProgress(m, p) ==
    LET contribution == Contribution(m, p, "download")
                        + Contribution(m, p, "video_upload")
                        + Contribution(m, p, "subtitle_pipeline")
                        + Contribution(m, p, "subtitle_upload")
        total == m.completed_weight * One + contribution
    IN  Min((total * 100) \div (TotalActiveWeight(p) * One), 100)

UpdateFromEvent(m, p, component, status) ==
    IF status \notin {"PENDING", "RUNNING", "none"}
    THEN IF component = "video"
         THEN UpdateStageProgress(m, p, "video_upload", One)
         ELSE LET m1 == UpdateStageProgress(m, p, "subtitle_pipeline", One)
              IN  IF p.upload_subtitle /\ status # "SKIPPED"
                  THEN UpdateStageProgress(m1, p, "subtitle_upload", One)
                  ELSE m1
    ELSE m

\* ------------------------------------------------------------------ events
ProgressEvent(stage, percent) ==
    [type |-> "progress_event", component |-> "none", stage |-> stage,
     percent |-> percent, status |-> "none", output |-> {}, error |-> "null"]

\* _update_component_status: a field that is not given is not in the payload
ComponentUpdate(component, status, output, error) ==
    [type |-> "component_update", component |-> component, stage |-> "none",
     percent |-> 0, status |-> status, output |-> output, error |-> error]

Details(component) == ComponentUpdate(component, "none", {}, "null")

TaskFailedEvent ==
    [type |-> "task_failed", component |-> "none", stage |-> "none",
     percent |-> 0, status |-> "none", output |-> {}, error |-> "FATAL_ERROR"]

\* ---------------------------------------------------------- task registry
NoTask ==
    [exists |-> FALSE, status |-> "QUEUED", progress |-> 0, error |-> "null",
     params |-> [upload_video |-> FALSE, extract_subtitle |-> FALSE,
                 upload_subtitle |-> FALSE],
     results |-> [c \in Components |->
                    [status |-> "PENDING", output |-> {}, error |-> "null"]]]

\* unified_upload_endpoint: the initial registry entry
InitialTask(p) ==
    [exists |-> TRUE, status |-> "QUEUED", progress |-> 0, error |-> "null",
     params |-> p,
     results |-> [c \in Components |->
        [status |-> IF (c = "video" /\ p.upload_video)
                       \/ (c = "subtitle" /\ p.extract_subtitle)
                    THEN "PENDING" ELSE "SKIPPED",
         output |-> {}, error |-> "null"]]]
\* ------------------------------------------------------- result aggregator
\* an output that is replaced by the one the update carries
ReplaceOutput(stored, new) == IF new = {} THEN stored ELSE new

\* lines 1819-1825 for the output: a dict is a set of <<key, value>> with one
\* value per key, and update() puts the new value of a key in the place of the
\* old one. The None a component starts with is the empty set: the first
\* output replaces it (line 1825), as update() on an empty dict would
UpdateOutput(stored, new) ==
    {kv \in stored : \A n \in new : n[1] # kv[1]} \cup new

\* task['results'][component].update(data), output merged key-wise
MergeComponentUpdate(t, e) ==
    [t EXCEPT !.results[e.component] =
        [status |-> IF e.status # "none" THEN e.status ELSE @.status,
         output |-> UpdateOutput(@.output, e.output),
         error  |-> IF e.error # "null" THEN e.error ELSE @.error]]

\* the fatal event applied without completing the progress
ApplyTaskFailedKeepsProgress(t, e) ==
    [t EXCEPT !.status = "FAILED", !.error = e.error]

ApplyTaskFailed(t, e) ==
    [t EXCEPT !.status = "FAILED", !.error = e.error, !.progress = 100]

\* the status endpoint's unlocked write of a task it found stale
WatchdogMark(t) == [t EXCEPT !.status = "FAILED", !.error = "TASK_TIMEOUT"]

\* progress refreshed whatever the task's status
RefreshAlways(t, m, landed) ==
    LET t1 == IF landed THEN WatchdogMark(t) ELSE t
    IN  [t1 EXCEPT !.status = IF t.status \notin TerminalStates THEN "RUNNING" ELSE @,
                   !.progress = IF m.exists THEN GetTotalProgress(m, t.params) ELSE @]

\* lines 1835-1838; landed: the watchdog's write falls between the test of
\* task['status'] and the assignment of "RUNNING"
RefreshStatusAndProgress(t, m, landed) ==
    LET t1 == IF landed THEN WatchdogMark(t) ELSE t
    IN  IF t.status \notin TerminalStates
        THEN [t1 EXCEPT !.status = "RUNNING",
                        !.progress = IF m.exists
                                     THEN GetTotalProgress(m, t.params) ELSE @]
        ELSE t1

IsFinished(t) ==
    LET video_status == t.results["video"].status
        subtitle_status == t.results["subtitle"].status
    IN  /\ "PENDING" \notin {video_status, subtitle_status}
        /\ "RUNNING" \notin {video_status, subtitle_status}

\* evaluation repeated for a task that is already terminal
ShouldEvaluateUnguarded(t) == IsFinished(t)

ShouldEvaluate(t) == IsFinished(t) /\ t.status \notin TerminalStates

ActiveStatuses(t) ==
    {t.results[c].status : c \in Components} \ {"SKIPPED"}

\* a failed component fails the task whatever the other did
FinalStatusNoPartial(t) ==
    IF "FAILED" \in ActiveStatuses(t) THEN "FAILED" ELSE "SUCCESS"

FinalStatus(t) ==
    LET active_statuses == ActiveStatuses(t)
    IN  IF active_statuses = {} THEN "SUCCESS"
        ELSE IF \A s \in active_statuses : s = "SUCCESS" THEN "SUCCESS"
        ELSE IF "FAILED" \in active_statuses
             THEN IF "SUCCESS" \in active_statuses
                  THEN "PARTIAL_SUCCESS" ELSE "FAILED"
        ELSE "SUCCESS"

\* lines 1848-1860; landed: the watchdog's write falls after the test at 1845
TerminalEvaluation(t, landed) ==
    LET t1 == IF landed THEN WatchdogMark(t) ELSE t
        t2 == [t1 EXCEPT !.progress = 100,
                         !.results = [c \in Components |->
                            IF @[c].status = "RUNNING"
                            THEN [@[c] EXCEPT !.status = "FAILED"]
                            ELSE @[c]]]
    IN  [t2 EXCEPT !.status = FinalStatus(t2)]

LandPoints == {"none", "L1835", "L1841", "L1845"}

\* one iteration of result_processor_thread_loop for event e
HandleEvent(t, m, e, land) ==
    LET m0 == IF ~m.exists THEN NewModel ELSE m
        t1 == IF e.type = "component_update" THEN MergeComponentUpdate(t, e)
              ELSE IF e.type = "task_failed" THEN ApplyTaskFailed(t, e)
              ELSE t
        m1 == IF e.type = "progress_event"
              THEN UpdateStageProgress(m0, t.params, e.stage, e.percent)
              ELSE IF e.type = "component_update"
              THEN UpdateFromEvent(m0, t.params, e.component, e.status)
              ELSE m0
        t2 == RefreshStatusAndProgress(t1, m1, land = "L1835")
        t3 == IF land = "L1841" THEN WatchdogMark(t2) ELSE t2
        evaluate == ShouldEvaluate(t3)
        t4 == IF evaluate THEN TerminalEvaluation(t3, land = "L1845")
              ELSE IF land = "L1845" THEN WatchdogMark(t3) ELSE t3
    IN  [task |-> t4, pm |-> IF evaluate THEN NoModel ELSE m1,
         evaluated |-> evaluate]

NoObs ==
    [evalCount |-> 0, rmCount |-> 0, wdFired |-> FALSE, crashed |-> FALSE,
     fatalSent |-> FALSE, fatalCount |-> 0, allRaised |-> FALSE,
     enqueued |-> {}, unlinked |-> {}, merged |-> <<>>, stale |-> FALSE,
     reported |-> [c \in Components |-> "none"],
     uploadResult |-> [c \in Components |-> "none"]]

ProcessResult ==
    /\ resultQueue # <<>>
    /\ \E land \in LandPoints :
        /\ land # "none" => wd = "write"
        /\ LET r == IF task.exists
                    THEN HandleEvent(task, pm, Head(resultQueue), land)
                    ELSE [task |-> task, pm |-> pm, evaluated |-> FALSE]
           IN  /\ task' = r.task
               /\ pm' = r.pm
               /\ tempDir' = IF r.evaluated THEN FALSE ELSE tempDir
               /\ obs' = [obs EXCEPT
                    !.evalCount = @ + (IF r.evaluated THEN 1 ELSE 0),
                    !.rmCount = @ + (IF r.evaluated /\ tempDir THEN 1 ELSE 0),
                    !.wdFired = @ \/ land # "none"]
        /\ wd' = IF land # "none" THEN "idle" ELSE wd
    /\ resultQueue' = Tail(resultQueue)
    /\ UNCHANGED <<taskQueue, uploadQueue, worker, uploader, pipeline, age, batch>>

\* ------------------------------------------------- front door, status poll
Flags == [upload_video : BOOLEAN, extract_subtitle : BOOLEAN,
          upload_subtitle : BOOLEAN]

unified_upload_endpoint ==
    /\ ~task.exists
    /\ \E p \in Flags :
        /\ task' = InitialTask(p)
        /\ taskQueue' = Append(taskQueue, p)
    /\ UNCHANGED <<pm, resultQueue, uploadQueue, worker, uploader, tempDir, wd, obs,
                   pipeline, age, batch>>

\* minutes between task.updatedAt and the poll, as a poll can find them
Elapsed == {0, MAX_STUCK_DURATION, MAX_STUCK_DURATION + 1}

IsStuck(elapsed) == elapsed > MAX_STUCK_DURATION

\* get_task_status_endpoint up to its decision that the task is stale, for a
\* poll made elapsed minutes after task.updatedAt; a poll that decides
\* otherwise only reads
StatusPoll(elapsed) ==
    /\ task.exists
    /\ wd = "idle"
    /\ task.status \in ActiveStates
    /\ IsStuck(elapsed)
    /\ wd' = "write"
    /\ UNCHANGED <<task, pm, taskQueue, resultQueue, uploadQueue, worker,
                   uploader, tempDir, obs, pipeline, age, batch>>

get_task_status_endpoint == \E elapsed \in Elapsed : StatusPoll(elapsed)

\* lines 1319-1326: the write, made on the shared dict outside tasks_lock
WatchdogWrite ==
    /\ wd = "write"
    /\ task' = WatchdogMark(task)
    /\ wd' = "idle"
    /\ obs' = [obs EXCEPT !.wdFired = TRUE]
    /\ UNCHANGED <<pm, taskQueue, resultQueue, uploadQueue, worker,
                   uploader, tempDir, pipeline, age, batch>>

\* ------------------------------------------------------------ media worker
IdleWorker ==
    [pc |-> "idle", out |-> <<>>,
     params |-> NoTask.params, total_size |-> 0, bytes_downloaded |-> 0,
     raw_audio |-> FALSE, num_groups |-> 0, completed_count |-> 0,
     all_srt_blocks |-> FALSE, all_raised |-> TRUE]

\* the worker at pc with events to send, its locals of earlier steps dropped
Finished(pc, out) == [IdleWorker EXCEPT !.pc = pc, !.out = out,
                                        !.params = worker.params]

\* result_queue.put of the next event the current step sends
WorkerPut ==
    /\ worker.out # <<>>
    /\ Len(resultQueue) < MaxResultQueue
    /\ resultQueue' = Append(resultQueue, Head(worker.out))
    /\ worker' = [worker EXCEPT !.out = Tail(@)]
    /\ obs' = [obs EXCEPT
            !.fatalSent = @ \/ Head(worker.out).type = "task_failed",
            !.fatalCount = @ + (IF Head(worker.out).type = "task_failed"
                                THEN 1 ELSE 0)]
    /\ UNCHANGED <<task, pm, taskQueue, uploadQueue, uploader, tempDir, wd,
                   pipeline, age, batch>>

WorkerStep(w) ==
    /\ worker.out = <<>>
    /\ worker' = w
    /\ UNCHANGED <<task, pm, taskQueue, resultQueue, uploadQueue, uploader,
                   tempDir, wd, obs, pipeline, age, batch>>

\* worker_process_loop: task_queue.get(); process_unified_task lines 1398-1401
WorkerTake ==
    /\ worker.pc = "idle"
    /\ taskQueue # <<>>
    /\ taskQueue' = Tail(taskQueue)
    /\ worker' = [IdleWorker EXCEPT !.pc = "step1", !.params = Head(taskQueue)]
    /\ tempDir' = TRUE
    /\ UNCHANGED <<task, pm, resultQueue, uploadQueue, uploader, wd, obs,
                   pipeline, age, batch>>

\* lines 1430-1435
StartDownload ==
    /\ worker.pc = "step1"
    /\ LET needs_download == worker.params.upload_video
                             \/ worker.params.extract_subtitle
       IN  WorkerStep(IF needs_download
                      THEN [worker EXCEPT !.pc = "connect",
                              !.out = <<ComponentUpdate("video", "RUNNING", {}, "null"),
                                        ComponentUpdate("subtitle", "RUNNING", {}, "null"),
                                        ProgressEvent("download", 0)>>]
                      ELSE [worker EXCEPT !.pc = "step2"])

\* lines 1437-1441: the request is answered, or raises
Connect ==
    /\ worker.pc = "connect"
    /\ \/ \E size \in 0..MaxChunks :
            WorkerStep([worker EXCEPT !.pc = "stream", !.total_size = size,
                                      !.bytes_downloaded = 0])
       \/ WorkerStep([worker EXCEPT !.pc = "fatal"])

\* lines 1442-1448: one chunk, or the stream breaks
DownloadChunk ==
    /\ worker.pc = "stream"
    /\ \/ /\ worker.bytes_downloaded < MaxChunks
          /\ LET n == worker.bytes_downloaded + 1
             IN  WorkerStep([worker EXCEPT !.bytes_downloaded = n,
                    !.out = IF worker.total_size > 0
                            THEN <<Details("video"),
                                   ProgressEvent("download",
                                       (n * One) \div worker.total_size)>>
                            ELSE <<>>])
       \/ WorkerStep([worker EXCEPT !.pc = "fatal", !.total_size = 0,
                                    !.bytes_downloaded = 0])

\* lines 1449-1450
DownloadDone ==
    /\ worker.pc = "stream"
    /\ WorkerStep([worker EXCEPT !.pc = "step2", !.total_size = 0,
                     !.bytes_downloaded = 0,
                     !.out = <<Details("video"), ProgressEvent("download", One)>>])

\* the events of the outer except clause, lines 1534-1537
FatalEvents == <<TaskFailedEvent>>

ReportFatal ==
    /\ worker.pc = "fatal"
    /\ WorkerStep(Finished("done", FatalEvents))

\* lines 1456-1469, up to the call of extract_audio_with_ffmpeg
CheckMedia ==
    /\ worker.pc = "step2"
    /\ IF worker.params.extract_subtitle
       THEN \/ WorkerStep([worker EXCEPT !.pc = "step3",
                   !.out = <<ComponentUpdate("subtitle", "SKIPPED", {}, "null"),
                             ProgressEvent("subtitle_pipeline", One)>>])
            \/ WorkerStep([worker EXCEPT !.pc = "ffmpeg",
                   !.out = <<Details("subtitle")>>])
       ELSE WorkerStep([worker EXCEPT !.pc = "step3",
                   !.out = <<ComponentUpdate("subtitle", "SKIPPED", {}, "null")>>])

\* the task given up when audio extraction fails
AbortAfterAudioFailure == "done"

\* where the worker goes on after the except clause of lines 1466-1468
AfterAudioFailure == "step3"

\* lines 1464-1468: extract_audio_with_ffmpeg returns or raises
ExtractAudio ==
    /\ worker.pc = "ffmpeg"
    /\ \/ WorkerStep([worker EXCEPT !.pc = "step3", !.raw_audio = TRUE])
       \/ WorkerStep([worker EXCEPT !.pc = AfterAudioFailure,
             !.out = <<ComponentUpdate("subtitle", "FAILED", {},
                                       "AUDIO_EXTRACTION_FAILED"),
                       ProgressEvent("subtitle_pipeline", One)>>])

\* lines 1472-1481, up to upload_queue.put
DispatchVideo ==
    /\ worker.pc = "step3"
    /\ WorkerStep(IF worker.params.upload_video
                  THEN [worker EXCEPT !.pc = "put_video",
                          !.out = <<ComponentUpdate("video", "RUNNING", {}, "null"),
                                    ProgressEvent("video_upload", One \div 100)>>]
                  ELSE [worker EXCEPT
                          !.pc = IF worker.raw_audio THEN "step4" ELSE "done",
                          !.out = <<ComponentUpdate("video", "SKIPPED", {}, "null"),
                                    ProgressEvent("video_upload", One)>>])

\* the source file handed to the upload worker before audio extraction
EnqueueVideoUploadEarly ==
    /\ worker.pc \in {"step2", "put_video"}
    /\ worker.out = <<>>
    /\ worker.params.upload_video
    /\ "video" \notin obs.enqueued
    /\ uploadQueue' = Append(uploadQueue, "video")
    /\ worker' = [worker EXCEPT !.pc =
            IF worker.pc = "step2" THEN "step2"
            ELSE IF worker.raw_audio THEN "step4" ELSE "done"]
    /\ obs' = [obs EXCEPT !.enqueued = @ \cup {"video"}]
    /\ UNCHANGED <<task, pm, taskQueue, resultQueue, uploader, tempDir, wd,
                   pipeline, age, batch>>

\* lines 1475-1478
EnqueueVideoUpload ==
    /\ worker.pc = "put_video"
    /\ worker.out = <<>>
    /\ uploadQueue' = Append(uploadQueue, "video")
    /\ worker' = [worker EXCEPT !.pc = IF worker.raw_audio THEN "step4" ELSE "done"]
    /\ obs' = [obs EXCEPT !.enqueued = @ \cup {"video"}]
    /\ UNCHANGED <<task, pm, taskQueue, resultQueue, uploader, tempDir, wd,
                   pipeline, age, batch>>

\* lines 1509-1510 with preprocess_audio_for_subtitles: its callbacks, then
\* the list of work units (empty or not), or an exception
Preprocess ==
    /\ worker.pc = "step4"
    /\ \E denoiser \in BOOLEAN, outcome \in {"units", "none", "raise"} :
        WorkerStep([worker EXCEPT
            !.raw_audio = FALSE,
            !.pc = IF outcome = "units" THEN "schedule" ELSE "sub_failed",
            !.out = <<ProgressEvent("subtitle_pipeline", One \div 10)>>
                    \o (IF denoiser THEN <<Details("subtitle")>> ELSE <<>>)
                    \o <<Details("subtitle"),
                         ProgressEvent("subtitle_pipeline",
                                       One \div 10 + One \div 4)>>])

\* run_subtitle_extraction_pipeline lines 1004-1019
SchedulePipeline ==
    /\ worker.pc = "schedule"
    /\ \/ WorkerStep([worker EXCEPT !.pc = "sub_failed"])
       \/ \E n \in 1..MaxBatches :
            WorkerStep([worker EXCEPT !.pc = "batches", !.num_groups = n,
                          !.completed_count = 0, !.all_srt_blocks = FALSE,
                          !.out = <<Details("subtitle")>>])

\* 0.35 + (done / total) * 0.65, as sub_progress_callback reports it
TranscribeFraction(done, total) ==
    (35 * One) \div 100 + (65 * One * done) \div (100 * total)

\* lines 1050-1082: one future resolves
BatchResolved ==
    /\ worker.pc = "batches"
    /\ worker.completed_count < worker.num_groups
    /\ \E result \in {"lines", "empty", "raise", "timeout"} :
        WorkerStep([worker EXCEPT
              !.completed_count = @ + 1,
              !.all_srt_blocks = @ \/ result = "lines",
              !.all_raised = @ /\ result = "raise",
              !.out = <<Details("subtitle"),
                        ProgressEvent("subtitle_pipeline",
                            TranscribeFraction(worker.completed_count + 1,
                                               worker.num_groups))>>])

\* the inner except clause escalating to the outer one
SubtitleFailureFatal == <<TaskFailedEvent>>

\* the events of the inner except clause, lines 1531-1533
SubtitleFailureEvents ==
    <<ComponentUpdate("subtitle", "FAILED", {}, "SUBTITLE_PIPELINE_FAILED"),
      ProgressEvent("subtitle_pipeline", One)>>

\* lines 1086-1099 and 1513-1529
Assemble ==
    /\ worker.pc = "batches"
    /\ worker.completed_count = worker.num_groups
    /\ worker.out = <<>>
    /\ worker' =
        IF ~worker.all_srt_blocks
        THEN Finished("sub_failed", <<>>)
        ELSE IF worker.params.upload_subtitle
        THEN Finished("put_subtitle",
                <<ComponentUpdate("subtitle", "none", {<<"contentBase64", "srt">>}, "null"),
                  ComponentUpdate("subtitle", "RUNNING", {}, "null"),
                  ProgressEvent("subtitle_upload", One \div 100)>>)
        ELSE Finished("done",
                <<ComponentUpdate("subtitle", "none", {<<"contentBase64", "srt">>}, "null"),
                  ComponentUpdate("subtitle", "SUCCESS", {}, "null"),
                  ProgressEvent("subtitle_pipeline", One)>>)
    /\ obs' = [obs EXCEPT !.allRaised = worker.all_raised]
    /\ UNCHANGED <<task, pm, taskQueue, resultQueue, uploadQueue,
                   uploader, tempDir, wd, pipeline, age, batch>>

\* lines 1520-1526
EnqueueSubtitleUpload ==
    /\ worker.pc = "put_subtitle"
    /\ worker.out = <<>>
    /\ uploadQueue' = Append(uploadQueue, "subtitle")
    /\ worker' = [worker EXCEPT !.pc = "done"]
    /\ obs' = [obs EXCEPT !.enqueued = @ \cup {"subtitle"}]
    /\ UNCHANGED <<task, pm, taskQueue, resultQueue, uploader, tempDir, wd,
                   pipeline, age, batch>>

SubtitleFailed ==
    /\ worker.pc = "sub_failed"
    /\ WorkerStep(Finished("done", SubtitleFailureEvents))

\* the worker process dies while it handles the task
WorkerCrash ==
    /\ worker.pc \notin {"idle", "dead"}
    /\ ~(worker.pc = "done" /\ worker.out = <<>>)
    /\ worker' = [IdleWorker EXCEPT !.pc = "dead"]
    /\ obs' = [obs EXCEPT !.crashed = TRUE]
    /\ UNCHANGED <<task, pm, taskQueue, resultQueue, uploadQueue,
                   uploader, tempDir, wd, pipeline, age, batch>>
\* ----------------------------------------------------------- upload worker
IdleUploader ==
    [pc |-> "idle", out |-> <<>>, component |-> "none", file_size |-> 0,
     bytes_read |-> 0, task_proxy_cache |-> FALSE, emitted |-> <<>>]

StageKey(component) ==
    IF component = "video" THEN "video_upload" ELSE "subtitle_upload"

UploaderPut ==
    /\ uploader.out # <<>>
    /\ Len(resultQueue) < MaxResultQueue
    /\ resultQueue' = Append(resultQueue, Head(uploader.out))
    /\ uploader' = [uploader EXCEPT !.out = Tail(@)]
    /\ UNCHANGED <<task, pm, taskQueue, uploadQueue, worker, tempDir, wd, obs,
                   pipeline, age, batch>>

UploaderStep(u) ==
    /\ uploader.out = <<>>
    /\ uploader' = u
    /\ UNCHANGED <<task, pm, taskQueue, resultQueue, uploadQueue, worker,
                   tempDir, wd, obs, pipeline, age, batch>>

\* lines 1601-1610
UploaderGet ==
    /\ uploader.pc = "idle"
    /\ uploader.out = <<>>
    /\ uploadQueue # <<>>
    /\ uploadQueue' = Tail(uploadQueue)
    /\ uploader' = [uploader EXCEPT !.pc = "route", !.component = Head(uploadQueue)]
    /\ UNCHANGED <<task, pm, taskQueue, resultQueue, worker, tempDir, wd, obs,
                   pipeline, age, batch>>

\* lines 1613-1631: route selection on a cache miss (it may raise, which the
\* loop's outer except clause only logs), then the RUNNING update
SelectRoute ==
    /\ uploader.pc = "route"
    /\ \/ UploaderStep([uploader EXCEPT !.pc = "open", !.task_proxy_cache = TRUE,
             !.out = <<ComponentUpdate(uploader.component, "RUNNING", {}, "null")>>])
       \/ /\ ~uploader.task_proxy_cache
          /\ UploaderStep([uploader EXCEPT !.pc = "idle", !.component = "none"])

\* upload_file lines 1150-1154: os.path.getsize
OpenFile ==
    /\ uploader.pc = "open"
    /\ \/ \E size \in 0..MaxFileChunks :
            UploaderStep([uploader EXCEPT !.pc = "stream", !.file_size = size,
                                          !.bytes_read = 0])
       \/ UploaderStep([uploader EXCEPT !.pc = "failed"])

\* a fraction that counts the bytes still to send
UploadFractionRemaining(bytes_uploaded, total_bytes) ==
    ((total_bytes - bytes_uploaded) * One) \div total_bytes

\* progress_callback line 1636: percent_float = bytes_uploaded / total_bytes
UploadFraction(bytes_uploaded, total_bytes) ==
    (bytes_uploaded * One) \div total_bytes

\* file_reader_generator with progress_callback, one chunk; emitted keeps the
\* fractions reported so far by the call of upload_file in progress
UploadChunk ==
    /\ uploader.pc = "stream"
    /\ uploader.bytes_read < uploader.file_size
    /\ LET n == uploader.bytes_read + 1
           percent_float == UploadFraction(n, uploader.file_size)
       IN  UploaderStep([uploader EXCEPT !.bytes_read = n,
              !.emitted = Append(@, percent_float),
              !.out = <<ProgressEvent(StageKey(uploader.component),
                                      percent_float),
                        Details(uploader.component)>>])

\* file_reader_generator at end of file: progress_callback(file_size, file_size)
UploadEndOfFile ==
    /\ uploader.pc = "stream"
    /\ uploader.bytes_read = uploader.file_size
    /\ UploaderStep([uploader EXCEPT !.pc = "sent",
          !.emitted = IF uploader.file_size > 0
                      THEN Append(@, UploadFraction(uploader.file_size,
                                                    uploader.file_size))
                      ELSE @,
          !.out = IF uploader.file_size > 0
                  THEN <<ProgressEvent(StageKey(uploader.component), One),
                         Details(uploader.component)>>
                  ELSE <<>>])

\* lines 1644-1648; upload_file has returned and its locals are gone
UploadSucceeded ==
    /\ uploader.pc = "sent"
    /\ uploader.out = <<>>
    /\ uploader' = [uploader EXCEPT !.pc = "finally", !.emitted = <<>>,
          !.file_size = 0, !.bytes_read = 0,
          !.out = <<ComponentUpdate(uploader.component, "SUCCESS",
                                    {<<"shareCode", "code">>}, "null")>>]
    /\ obs' = [obs EXCEPT !.uploadResult[uploader.component] = "ok"]
    /\ UNCHANGED <<task, pm, taskQueue, resultQueue, uploadQueue, worker,
                   tempDir, wd, pipeline, age, batch>>

\* lines 1649-1659: a failure response, or an exception of the upload call
UploadFailed ==
    /\ uploader.pc \in {"stream", "sent", "failed"}
    /\ uploader.out = <<>>
    /\ uploader' = [uploader EXCEPT !.pc = "finally", !.emitted = <<>>,
          !.file_size = 0, !.bytes_read = 0,
          !.out = <<ComponentUpdate(uploader.component, "FAILED", {},
                                    "UPLOAD_FAILED")>>]
    /\ obs' = [obs EXCEPT !.uploadResult[uploader.component] = "failed"]
    /\ UNCHANGED <<task, pm, taskQueue, resultQueue, uploadQueue, worker,
                   tempDir, wd, pipeline, age, batch>>

\* tasks as the upload worker's process sees it: the dict as it was when the
\* process was started, before any submission
UploaderTasksView == {}

IsLastUpload(component) ==
    /\ "task" \in UploaderTasksView
    /\ component = "subtitle"

\* lines 1661-1682: the finally clause, Path(local_file_path_str).unlink first
UploadFinally ==
    /\ uploader.pc = "finally"
    /\ uploader.out = <<>>
    /\ uploader' = [uploader EXCEPT !.pc = "idle", !.component = "none",
          !.file_size = 0, !.bytes_read = 0,
          !.task_proxy_cache = IF IsLastUpload(uploader.component)
                               THEN FALSE ELSE @]
    /\ obs' = [obs EXCEPT !.unlinked = @ \cup {uploader.component}]
    /\ UNCHANGED <<task, pm, taskQueue, resultQueue, uploadQueue, worker,
                   tempDir, wd, pipeline, age, batch>>

\* ------------------------------------- run_subtitle_extraction_pipeline
\* The scheduler and its ProcessPoolExecutor. A future is pending (queued in
\* the executor), running, returned (with its list of lines) or raised;
\* overdue marks a call that has been running for longer than result_timeout.
\* A line is {"start_ms", "srt_line"}; srt_line is kept as <<batch, position>>.
NoPipeline ==
    [pc |-> "idle", num_groups |-> 0, futures |-> <<>>, handled |-> {},
     completed_count |-> 0, all_srt_blocks |-> <<>>, transcript |-> <<>>,
     chunk_files |-> <<>>, batch_size |-> 0, chunk_groups |-> <<>>]

\* groups that leave out the units after the last full batch
ChunkGroupsFullOnly(chunk_files, size) ==
    [g \in 1..(Len(chunk_files) \div size) |->
        SubSeq(chunk_files, (g - 1) * size + 1, g * size)]

\* line 1016: [chunk_files[i:i + size] for i in range(0, total_chunks, size)];
\* a slice ends at the end of the list when i + size lies beyond it
ChunkGroups(chunk_files, size) ==
    LET total_chunks == Len(chunk_files)
        starts == {i \in 0..(total_chunks - 1) : i % size = 0}
    IN  [g \in 1..Cardinality(starts) |->
            SubSeq(chunk_files, (g - 1) * size + 1,
                   Min(g * size, total_chunks))]

NewFuture == [state |-> "pending", overdue |-> FALSE, result |-> <<>>]

\* the lists _process_subtitle_batch_with_ai can return for batch i
BatchResults(i) ==
    {[k \in DOMAIN f |-> [start_ms |-> f[k], srt_line |-> <<i, k>>]] :
        f \in UNION {[1..n -> 0..MaxStartMs] : n \in 0..MaxLines}}

RunningCalls == {i \in DOMAIN pipeline.futures : pipeline.futures[i].state = "running"}

FinishedCalls ==
    {i \in DOMAIN pipeline.futures :
        pipeline.futures[i].state \in {"returned", "raised"}}

RECURSIVE InsertByStartMs(_, _)
InsertByStartMs(sorted, x) ==
    IF sorted = <<>> THEN <<x>>
    ELSE IF Head(sorted).start_ms <= x.start_ms
         THEN <<Head(sorted)>> \o InsertByStartMs(Tail(sorted), x)
         ELSE <<x>> \o sorted

\* the blocks left in the order the batches completed
KeepCompletionOrder(blocks) == blocks

\* all_srt_blocks.sort(key=lambda x: x["start_ms"]), a stable sort
RECURSIVE SortByStartMs(_)
SortByStartMs(blocks) ==
    IF blocks = <<>> THEN <<>>
    ELSE InsertByStartMs(SortByStartMs(SubSeq(blocks, 1, Len(blocks) - 1)),
                         blocks[Len(blocks)])

PipelineStep(pl) ==
    /\ pipeline' = pl
    /\ UNCHANGED <<task, pm, taskQueue, resultQueue, uploadQueue, worker,
                   uploader, tempDir, wd, obs, age, batch>>

\* lines 1011-1017 for the work units and the batch size the pipeline holds
FormBatches ==
    /\ pipeline.pc = "idle"
    /\ pipeline.batch_size > 0
    /\ IF Len(pipeline.chunk_files) = 0
       THEN PipelineStep([pipeline EXCEPT !.pc = "returned"])
       ELSE LET chunk_groups == ChunkGroups(pipeline.chunk_files,
                                            pipeline.batch_size)
            IN  PipelineStep([pipeline EXCEPT !.pc = "submit",
                    !.chunk_groups = chunk_groups,
                    !.num_groups = Len(chunk_groups)])

\* lines 1011-1022: no work unit returns "" at once, else the batches are formed
PipelineStart ==
    /\ pipeline.pc = "idle"
    /\ \/ PipelineStep([pipeline EXCEPT !.pc = "returned"])
       \/ \E n \in 1..MaxGroups :
            PipelineStep([pipeline EXCEPT !.pc = "submit", !.num_groups = n])

\* lines 1031-1044: executor.submit of the next batch, then the pause
PipelineSubmit ==
    /\ pipeline.pc = "submit"
    /\ LET futures == Append(pipeline.futures, NewFuture)
       IN  PipelineStep([pipeline EXCEPT !.futures = futures,
              !.pc = IF Len(futures) = pipeline.num_groups
                     THEN "collect" ELSE "submit"])

\* a pool that starts a process for every queued call
BatchStartUnbounded ==
    \E i \in DOMAIN pipeline.futures :
        /\ pipeline.futures[i].state = "pending"
        /\ \A j \in 1..(i - 1) : pipeline.futures[j].state # "pending"
        /\ PipelineStep([pipeline EXCEPT !.futures[i].state = "running"])

\* a pool process takes the oldest queued call
BatchStart ==
    /\ Cardinality(RunningCalls) < SUBTITLE_CONCURRENT_REQUESTS
    /\ \E i \in DOMAIN pipeline.futures :
        /\ pipeline.futures[i].state = "pending"
        /\ \A j \in 1..(i - 1) : pipeline.futures[j].state # "pending"
        /\ PipelineStep([pipeline EXCEPT !.futures[i].state = "running"])

\* a running call is still running result_timeout after it was started
BatchOverdue ==
    \E i \in RunningCalls :
        /\ ~pipeline.futures[i].overdue
        /\ PipelineStep([pipeline EXCEPT !.futures[i].overdue = TRUE])

\* _process_subtitle_batch_with_ai returns its list of lines
BatchReturns ==
    \E i \in RunningCalls : \E result \in BatchResults(i) :
        PipelineStep([pipeline EXCEPT !.futures[i].state = "returned",
                                      !.futures[i].result = result])

\* _process_subtitle_batch_with_ai raises
BatchRaises ==
    \E i \in RunningCalls :
        PipelineStep([pipeline EXCEPT !.futures[i].state = "raised"])

\* lines 1049-1082: as_completed yields a finished future, future.result()
PipelineCollect ==
    /\ pipeline.pc = "collect"
    /\ \E i \in FinishedCalls \ pipeline.handled :
        LET result == pipeline.futures[i].result
        IN  PipelineStep([pipeline EXCEPT
                !.handled = @ \cup {i},
                !.completed_count = @ + 1,
                !.all_srt_blocks =
                    IF pipeline.futures[i].state = "returned" /\ result # <<>>
                    THEN @ \o result ELSE @])

\* a return that drops every block when one call raised
PipelineReturnAllOrNothing ==
    /\ pipeline.pc = "collect"
    /\ pipeline.handled = DOMAIN pipeline.futures
    /\ PipelineStep([pipeline EXCEPT !.pc = "returned",
            !.transcript =
                IF \E i \in DOMAIN pipeline.futures :
                        pipeline.futures[i].state = "raised"
                THEN <<>>
                ELSE SortByStartMs(pipeline.all_srt_blocks)])

\* lines 1082-1099: as_completed is exhausted once every future was yielded,
\* the executor is shut down, the blocks are sorted and joined
PipelineReturn ==
    /\ pipeline.pc = "collect"
    /\ pipeline.handled = DOMAIN pipeline.futures
    /\ PipelineStep([pipeline EXCEPT !.pc = "returned",
            !.transcript = IF pipeline.all_srt_blocks = <<>> THEN <<>>
                           ELSE SortByStartMs(pipeline.all_srt_blocks)])

\* --------------------------------------- _process_subtitle_batch_with_ai
\* One call. An attempt is requests.post with the handling of its response
\* (lines 927-974); its outcome is one of AttemptOutcomes. outcomes is the
\* list of the outcomes of the attempts made, slept the list of the waits in
\* seconds, parts the number of units that could be encoded.
AttemptOutcomes == {"valid", "retryable_status", "other_status",
                    "request_exception", "invalid_response", "unexpected"}

\* line 930: the status codes 429, 500, 503, 504
RetryableStatus == {"retryable_status"}

\* line 976: requests.exceptions.RequestException (HTTPError of line 933 and
\* of raise_for_status included), pydantic.ValidationError, ValueError
CaughtByRetryLoop == {"retryable_status", "other_status",
                      "request_exception", "invalid_response"}

NoBatch ==
    [pc |-> "idle", parts |-> 0, attempt |-> 0, outcomes |-> <<>>,
     slept |-> <<>>, result |-> <<>>, validated |-> FALSE,
     subtitles |-> <<>>, last_end_ms |-> 0]

\* a wait that does not grow
WaitTimeConstant(attempt) == BackoffBase

\* line 981: 5 * (2 ** attempt)
WaitTime(attempt) == BackoffBase * 2 ^ attempt

\* the loop's end handing back an empty list
ExhaustedReturnsEmpty == "returned"

\* lines 989-990 after the loop: raise RuntimeError
Exhausted == "raised"

\* lines 886-905: the request is built from the units that could be encoded;
\* none raises ValueError, which line 992 re-raises
BatchPrepare ==
    /\ batch.pc = "idle"
    /\ \E encoded \in 0..MaxUnits :
        batch' = [batch EXCEPT !.parts = encoded,
                     !.pc = IF encoded = 0 THEN "raised" ELSE "attempt"]
    /\ UNCHANGED <<task, pm, taskQueue, resultQueue, uploadQueue, worker,
                   uploader, tempDir, wd, obs, pipeline, age>>

\* lines 925-986: one attempt. A validated response returns its lines; an
\* exception of line 976 is kept as last_exception and leads to the wait or,
\* at the last attempt, out of the loop; any other exception reaches line 992
BatchAttempt ==
    /\ batch.pc = "attempt"
    /\ \E outcome \in AttemptOutcomes :
        LET tried == [batch EXCEPT !.outcomes = Append(@, outcome)]
        IN  \/ /\ outcome = "valid"
               /\ \E result \in BatchResults(0) :
                    batch' = [tried EXCEPT !.pc = "returned",
                                           !.result = result,
                                           !.validated = TRUE]
            \/ /\ outcome \in CaughtByRetryLoop
               /\ batch' = [tried EXCEPT !.pc =
                                IF batch.attempt < max_retries - 1
                                THEN "sleep" ELSE Exhausted]
            \/ /\ outcome \notin CaughtByRetryLoop \cup {"valid"}
               /\ batch' = [tried EXCEPT !.pc = "raised"]
    /\ UNCHANGED <<task, pm, taskQueue, resultQueue, uploadQueue, worker,
                   uploader, tempDir, wd, obs, pipeline, age>>

\* lines 981-983 and the next iteration of the for loop
BatchSleep ==
    /\ batch.pc = "sleep"
    /\ batch' = [batch EXCEPT !.slept = Append(@, WaitTime(batch.attempt)),
                              !.attempt = @ + 1,
                              !.pc = "attempt"]
    /\ UNCHANGED <<task, pm, taskQueue, resultQueue, uploadQueue, worker,
                   uploader, tempDir, wd, obs, pipeline, age>>

\* ---------------------------------------------------------- specification
Init ==
    /\ task = NoTask
    /\ pm = NoModel
    /\ taskQueue = <<>>
    /\ resultQueue = <<>>
    /\ uploadQueue = <<>>
    /\ worker = IdleWorker
    /\ uploader = IdleUploader
    /\ tempDir = FALSE
    /\ wd = "idle"
    /\ obs = NoObs
    /\ pipeline = NoPipeline
    /\ age = 0
    /\ batch = NoBatch

Next ==
    \/ unified_upload_endpoint
    \/ get_task_status_endpoint
    \/ WatchdogWrite
    \/ ProcessResult
    \/ WorkerTake
    \/ StartDownload
    \/ Connect
    \/ DownloadChunk
    \/ DownloadDone
    \/ ReportFatal
    \/ CheckMedia
    \/ ExtractAudio
    \/ DispatchVideo
    \/ EnqueueVideoUpload
    \/ Preprocess
    \/ SchedulePipeline
    \/ BatchResolved
    \/ Assemble
    \/ EnqueueSubtitleUpload
    \/ SubtitleFailed
    \/ WorkerPut
    \/ WorkerCrash
    \/ UploaderGet
    \/ SelectRoute
    \/ OpenFile
    \/ UploadChunk
    \/ UploadEndOfFile
    \/ UploadSucceeded
    \/ UploadFailed
    \/ UploadFinally
    \/ UploaderPut

Spec == Init /\ [][Next]_vars
\* ------------------------------------- the progress model on its own
\* TaskProgressModel under any sequence of the calls the aggregator makes on
\* it: the model of a task with any request flags, fed progress events and
\* component statuses.
PMFractions == {0, One \div 100, One \div 2, One, One + One \div 2}

InitPM ==
    /\ \E p \in Flags : task = InitialTask(p)
    /\ pm = NewModel
    /\ taskQueue = <<>>
    /\ resultQueue = <<>>
    /\ uploadQueue = <<>>
    /\ worker = IdleWorker
    /\ uploader = IdleUploader
    /\ tempDir = FALSE
    /\ wd = "idle"
    /\ obs = NoObs
    /\ pipeline = NoPipeline
    /\ age = 0
    /\ batch = NoBatch

\* progress_model._update_stage_progress(stage, percent), line 1814
PMProgressEvent ==
    /\ \E stage \in Stages, percent \in PMFractions :
        /\ pm' = UpdateStageProgress(pm, task.params, stage, percent)
        /\ obs' = [obs EXCEPT !.stale = percent < pm.last[stage]]
    /\ UNCHANGED <<task, taskQueue, resultQueue, uploadQueue, worker, uploader,
                   tempDir, wd, pipeline, age, batch>>

\* progress_model.update_from_event(data_type, component, data), line 1827
PMComponentUpdate ==
    /\ \E c \in Components, status \in {"RUNNING", "SUCCESS", "FAILED", "SKIPPED"} :
        /\ pm' = UpdateFromEvent(pm, task.params, c, status)
        /\ obs' = [obs EXCEPT !.reported[c] = status, !.stale = FALSE]
    /\ UNCHANGED <<task, taskQueue, resultQueue, uploadQueue, worker, uploader,
                   tempDir, wd, pipeline, age, batch>>

NextPM ==
    \/ PMProgressEvent
    \/ PMComponentUpdate

SpecPM == InitPM /\ [][NextPM]_vars

\* ------------------------------------- the subtitle pipeline on its own
InitPipeline == Init

NextPipeline ==
    \/ PipelineStart
    \/ PipelineSubmit
    \/ BatchStart
    \/ BatchOverdue
    \/ BatchReturns
    \/ BatchRaises
    \/ PipelineCollect
    \/ PipelineReturn

SpecPipeline == InitPipeline /\ [][NextPipeline]_vars

\* ----------------------- step 4 of process_unified_task with the pipeline
\* The media worker from its call of run_subtitle_extraction_pipeline (line
\* 1512) to the end of step 4, the pipeline followed future by future.
InitSubtitle ==
    /\ \E p \in Flags :
        /\ p.extract_subtitle
        /\ task = InitialTask(p)
        /\ worker = [IdleWorker EXCEPT !.pc = "pipeline", !.params = p]
    /\ pm = NoModel
    /\ taskQueue = <<>>
    /\ resultQueue = <<>>
    /\ uploadQueue = <<>>
    /\ uploader = IdleUploader
    /\ tempDir = TRUE
    /\ wd = "idle"
    /\ obs = NoObs
    /\ pipeline = NoPipeline
    /\ age = 0
    /\ batch = NoBatch

\* the events of lines 1515-1519 and of lines 1515, 1528-1529
SubtitleSuccessEvents(upload_subtitle) ==
    IF upload_subtitle
    THEN <<ComponentUpdate("subtitle", "none", {<<"contentBase64", "srt">>}, "null"),
           ComponentUpdate("subtitle", "RUNNING", {}, "null"),
           ProgressEvent("subtitle_upload", One \div 100)>>
    ELSE <<ComponentUpdate("subtitle", "none", {<<"contentBase64", "srt">>}, "null"),
           ComponentUpdate("subtitle", "SUCCESS", {}, "null"),
           ProgressEvent("subtitle_pipeline", One)>>

\* step 4 without the test of line 1513
SubtitleResultUnchecked ==
    /\ worker.pc = "pipeline"
    /\ pipeline.pc = "returned"
    /\ worker' = Finished(IF worker.params.upload_subtitle
                          THEN "put_subtitle" ELSE "done",
                          SubtitleSuccessEvents(worker.params.upload_subtitle))
    /\ UNCHANGED <<task, pm, taskQueue, resultQueue, uploadQueue, uploader,
                   tempDir, wd, obs, pipeline, age, batch>>

\* lines 1512-1533: srt_content is what the pipeline returned; an empty one
\* raises RuntimeError into the except clause of line 1531
SubtitleResult ==
    /\ worker.pc = "pipeline"
    /\ pipeline.pc = "returned"
    /\ LET srt_content == pipeline.transcript
       IN  worker' =
            IF srt_content = <<>>
            THEN Finished("done", SubtitleFailureEvents)
            ELSE Finished(IF worker.params.upload_subtitle
                          THEN "put_subtitle" ELSE "done",
                          SubtitleSuccessEvents(worker.params.upload_subtitle))
    /\ UNCHANGED <<task, pm, taskQueue, resultQueue, uploadQueue, uploader,
                   tempDir, wd, obs, pipeline, age, batch>>

NextSubtitle ==
    \/ NextPipeline
    \/ SubtitleResult

SpecSubtitle == InitSubtitle /\ [][NextSubtitle]_vars

\* ------------------------------------------ the executor's pool on its own
\* The pipeline from its first executor.submit (line 1032) with up to
\* MaxPoolGroups batches, more than the pool has processes. What a call hands
\* back does not matter to the pool: every call ends by raising.
InitPool ==
    /\ task = NoTask
    /\ pm = NoModel
    /\ taskQueue = <<>>
    /\ resultQueue = <<>>
    /\ uploadQueue = <<>>
    /\ worker = IdleWorker
    /\ uploader = IdleUploader
    /\ tempDir = FALSE
    /\ wd = "idle"
    /\ obs = NoObs
    /\ \E n \in 1..MaxPoolGroups :
        pipeline = [NoPipeline EXCEPT !.pc = "submit", !.num_groups = n]
    /\ age = 0
    /\ batch = NoBatch

NextPool ==
    \/ PipelineSubmit
    \/ BatchStart
    \/ BatchRaises
    \/ PipelineCollect
    \/ PipelineReturn

SpecPool == InitPool /\ [][NextPool]_vars

\* --------------------------------------------- the forming of batches
\* The pipeline called with 0..MaxWorkUnits work units, numbered in their
\* order, and a batch size of 1..MaxBatchSize.
InitBatching ==
    /\ task = NoTask
    /\ pm = NoModel
    /\ taskQueue = <<>>
    /\ resultQueue = <<>>
    /\ uploadQueue = <<>>
    /\ worker = IdleWorker
    /\ uploader = IdleUploader
    /\ tempDir = FALSE
    /\ wd = "idle"
    /\ obs = NoObs
    /\ \E n \in 0..MaxWorkUnits, size \in 1..MaxBatchSize :
        pipeline = [NoPipeline EXCEPT !.chunk_files = [k \in 1..n |-> k],
                                      !.batch_size = size]
    /\ age = 0
    /\ batch = NoBatch

NextBatching == FormBatches

SpecBatching == InitBatching /\ [][NextBatching]_vars

\* ------------------------------------- the end offsets of a response
\* _process_subtitle_batch_with_ai from the validated response of line 956
\* to its return: any list of up to MaxSubtitles lines whose start_ms, and
\* end_ms where given, are multiples of OffsetStep, and any end offset of the
\* batch's last work unit.
OffsetStep == 100

\* line 968: the duration given to a line whose end precedes its start
MinDuration == 250

\* end_ms: int | None = None (line 670), None written as -1
None == -1

Offsets == {k * OffsetStep : k \in 0..MaxOffset}

\* the subtitle lists BatchTranscriptionResult accepts, the text left out
ParsedResults ==
    UNION {[1..n -> [start_ms : Offsets, end_ms : Offsets \cup {None}]] :
            n \in 0..MaxSubtitles}

\* lines 962-966 alone
ResolveEndOffsetsUnclamped(subtitles, last_end_ms) ==
    [i \in DOMAIN subtitles |->
        [start_ms |-> subtitles[i].start_ms,
         end_ms |-> IF subtitles[i].end_ms = None
                    THEN IF i + 1 <= Len(subtitles)
                         THEN subtitles[i + 1].start_ms
                         ELSE last_end_ms
                    ELSE subtitles[i].end_ms]]

\* lines 961-971: each entry with the start_ms and the end_ms its srt_line
\* is written from
ResolveEndOffsets(subtitles, last_end_ms) ==
    [i \in DOMAIN subtitles |->
        LET subtitle == subtitles[i]
            end_ms == IF subtitle.end_ms = None
                      THEN IF i + 1 <= Len(subtitles)
                           THEN subtitles[i + 1].start_ms
                           ELSE last_end_ms
                      ELSE subtitle.end_ms
        IN  [start_ms |-> subtitle.start_ms,
             end_ms |-> IF subtitle.start_ms > end_ms
                        THEN subtitle.start_ms + MinDuration
                        ELSE end_ms]]

InitOffsets ==
    /\ task = NoTask
    /\ pm = NoModel
    /\ taskQueue = <<>>
    /\ resultQueue = <<>>
    /\ uploadQueue = <<>>
    /\ worker = IdleWorker
    /\ uploader = IdleUploader
    /\ tempDir = FALSE
    /\ wd = "idle"
    /\ obs = NoObs
    /\ pipeline = NoPipeline
    /\ age = 0
    /\ \E parsed_result \in ParsedResults, end_ms \in Offsets :
        batch = [NoBatch EXCEPT !.pc = "validated", !.validated = TRUE,
                                !.subtitles = parsed_result,
                                !.last_end_ms = end_ms]

\* lines 959-974: the loop over parsed_result.subtitles and the return
BatchReturnLines ==
    /\ batch.pc = "validated"
    /\ batch' = [batch EXCEPT
            !.pc = "returned",
            !.result = ResolveEndOffsets(batch.subtitles, batch.last_end_ms)]
    /\ UNCHANGED <<task, pm, taskQueue, resultQueue, uploadQueue, worker,
                   uploader, tempDir, wd, obs, pipeline, age>>

NextOffsets == BatchReturnLines

SpecOffsets == InitOffsets /\ [][NextOffsets]_vars

\* ------------------------------------------- one batch call on its own
NextBatch ==
    \/ BatchPrepare
    \/ BatchAttempt
    \/ BatchSleep

SpecBatch == Init /\ [][NextBatch]_vars

\* ------------------------------- the status endpoint against the clock
\* One accepted task, the events the aggregator handles for it (each sets
\* task.updatedAt, line 1808), the passing of time, and the status polls.
WatchdogEvents ==
    {Details("video"), TaskFailedEvent,
     ComponentUpdate("video", "RUNNING", {}, "null"),
     ComponentUpdate("video", "SUCCESS", {<<"shareCode", "code">>}, "null"),
     ComponentUpdate("subtitle", "SUCCESS", {}, "null")}

InitWatchdog ==
    /\ \E p \in Flags : task = InitialTask(p)
    /\ pm = NoModel
    /\ taskQueue = <<>>
    /\ resultQueue = <<>>
    /\ uploadQueue = <<>>
    /\ worker = IdleWorker
    /\ uploader = IdleUploader
    /\ tempDir = FALSE
    /\ wd = "idle"
    /\ obs = NoObs
    /\ pipeline = NoPipeline
    /\ age = 0
    /\ batch = NoBatch

\* time advances by about half the threshold, so that a poll can find the
\* task exactly at the threshold and one minute past it
TimePasses ==
    /\ \E minutes \in {MAX_STUCK_DURATION \div 2, MAX_STUCK_DURATION \div 2 + 1} :
        /\ age + minutes <= MaxAge
        /\ age' = age + minutes
    /\ UNCHANGED <<task, pm, taskQueue, resultQueue, uploadQueue, worker,
                   uploader, tempDir, wd, obs, pipeline, batch>>

\* one iteration of result_processor_thread_loop for event e, updatedAt and
\* the removal of the temporary directory included
ApplyEvent(e, land) ==
    /\ land # "none" => wd = "write"
    /\ LET r == HandleEvent(task, pm, e, land)
       IN  /\ task' = r.task
           /\ pm' = r.pm
           /\ tempDir' = IF r.evaluated THEN FALSE ELSE tempDir
           /\ obs' = [obs EXCEPT
                !.evalCount = @ + (IF r.evaluated THEN 1 ELSE 0),
                !.wdFired = @ \/ land # "none"]
    /\ wd' = IF land # "none" THEN "idle" ELSE wd
    /\ age' = 0

Handles(e, land) ==
    /\ ApplyEvent(e, land)
    /\ UNCHANGED <<taskQueue, resultQueue, uploadQueue, worker, uploader,
                   pipeline, batch>>

AggregatorHandles == \E e \in WatchdogEvents, land \in LandPoints : Handles(e, land)

NextWatchdog ==
    \/ TimePasses
    \/ AggregatorHandles
    \/ StatusPoll(age)
    \/ WatchdogWrite

SpecWatchdog == InitWatchdog /\ [][NextWatchdog]_vars

\* ------------------------------------------- the merge of outputs
\* One accepted task and up to MaxUpdates component updates without a
\* status, carrying any output over two keys and two values. obs.merged
\* keeps the component and the output of each update in the order handled.
OutputKeys == {"contentBase64", "shareCode"}

OutputValues == {"old", "new"}

\* the dicts over OutputKeys: at most one value for a key
Outputs ==
    {o \in SUBSET (OutputKeys \X OutputValues) :
        \A a, b \in o : a[1] = b[1] => a = b}

MergeEvents ==
    {ComponentUpdate(c, "none", output, "null") :
        c \in Components, output \in Outputs}

AggregatorMerges ==
    /\ Len(obs.merged) < MaxUpdates
    /\ \E e \in MergeEvents :
        LET r == HandleEvent(task, pm, e, "none")
        IN  /\ task' = r.task
            /\ pm' = r.pm
            /\ tempDir' = IF r.evaluated THEN FALSE ELSE tempDir
            /\ obs' = [obs EXCEPT
                    !.evalCount = @ + (IF r.evaluated THEN 1 ELSE 0),
                    !.merged = Append(@, [component |-> e.component,
                                          output |-> e.output])]
    /\ age' = 0
    /\ UNCHANGED <<taskQueue, resultQueue, uploadQueue, worker, uploader, wd,
                   pipeline, batch>>

\* upload_subtitle only matters to the progress model
InitMerge == InitWatchdog /\ ~task.params.upload_subtitle

NextMerge == AggregatorMerges

SpecMerge == InitMerge /\ [][NextMerge]_vars

\* ------------------------------------------- the aggregator on its own
\* result_processor_thread_loop for one accepted task, fed any sequence of
\* events: fractions below 0 and above 1.0, stages that are not active for
\* the task, statuses in any order.
AggregatorFractions == {-(One \div 2), One \div 2, One + One \div 2}

AggregatorEvents ==
    {ProgressEvent(stage, percent) :
        stage \in Stages, percent \in AggregatorFractions}
    \cup {ComponentUpdate(c, status, {}, "null") :
        c \in Components, status \in {"RUNNING", "SUCCESS", "FAILED", "SKIPPED"}}
    \cup {TaskFailedEvent}

AggregatorConsumes == \E e \in AggregatorEvents : Handles(e, "none")

NextAggregator == AggregatorConsumes

SpecAggregator == InitWatchdog /\ [][NextAggregator]_vars

\* --------------------------------- the result queue with two producers
\* RESULT_QUEUE is a multiprocessing.Queue written by the media worker and
\* by the upload worker: the events of one process arrive in the order it
\* put them, the events of the two processes in any relative order. Here
\* worker.out and uploader.out hold the events each process has put for a
\* task whose every step succeeds on a source that is not a video file, and
\* the aggregator receives them.
WorkerScript(p) ==
    (IF p.upload_video \/ p.extract_subtitle
     THEN <<ComponentUpdate("video", "RUNNING", {}, "null"),
            ComponentUpdate("subtitle", "RUNNING", {}, "null"),
            ProgressEvent("download", 0),
            Details("video"), ProgressEvent("download", One)>>
     ELSE <<>>)
    \o (IF p.extract_subtitle
        THEN <<ComponentUpdate("subtitle", "SKIPPED", {}, "null"),
               ProgressEvent("subtitle_pipeline", One)>>
        ELSE <<ComponentUpdate("subtitle", "SKIPPED", {}, "null")>>)
    \o (IF p.upload_video
        THEN <<ComponentUpdate("video", "RUNNING", {}, "null"),
               ProgressEvent("video_upload", One \div 100)>>
        ELSE <<ComponentUpdate("video", "SKIPPED", {}, "null"),
               ProgressEvent("video_upload", One)>>)

UploaderScript(p) ==
    IF p.upload_video
    THEN <<ComponentUpdate("video", "RUNNING", {}, "null"),
           ProgressEvent("video_upload", One), Details("video"),
           ComponentUpdate("video", "SUCCESS", {<<"shareCode", "code">>}, "null")>>
    ELSE <<>>

InitReorder ==
    /\ \E p \in Flags :
        /\ task = InitialTask(p)
        /\ worker = [IdleWorker EXCEPT !.pc = "done", !.params = p,
                                       !.out = WorkerScript(p)]
        /\ uploader = [IdleUploader EXCEPT !.out = UploaderScript(p)]
    /\ pm = NoModel
    /\ taskQueue = <<>>
    /\ resultQueue = <<>>
    /\ uploadQueue = <<>>
    /\ tempDir = TRUE
    /\ wd = "idle"
    /\ obs = NoObs
    /\ pipeline = NoPipeline
    /\ age = 0
    /\ batch = NoBatch

ReceivesFromWorker ==
    /\ worker.out # <<>>
    /\ ApplyEvent(Head(worker.out), "none")
    /\ worker' = [worker EXCEPT !.out = Tail(@)]
    /\ UNCHANGED <<taskQueue, resultQueue, uploadQueue, uploader, pipeline, batch>>

ReceivesFromUploader ==
    /\ uploader.out # <<>>
    /\ ApplyEvent(Head(uploader.out), "none")
    /\ uploader' = [uploader EXCEPT !.out = Tail(@)]
    /\ UNCHANGED <<taskQueue, resultQueue, uploadQueue, worker, pipeline, batch>>

NextReorder ==
    \/ ReceivesFromWorker
    \/ ReceivesFromUploader

SpecReorder == InitReorder /\ [][NextReorder]_vars

\* the registry entry after the aggregator handled events in the given order
ConsumeAll(t, m, events) ==
    LET run[i \in 0..Len(events)] ==
            IF i = 0 THEN [task |-> t, pm |-> m, evaluated |-> FALSE]
            ELSE LET before == run[i - 1]
                 IN  IF before.task.exists
                     THEN HandleEvent(before.task, before.pm, events[i], "none")
                     ELSE before
    IN  run[Len(events)].task

FinalState(t) ==
    [status |-> t.status, video |-> t.results["video"].status,
     subtitle |-> t.results["subtitle"].status]

\* ------------------------------------------------------------- properties
\* every queue is empty and neither worker has anything left to do or send
Quiescent ==
    /\ task.exists
    /\ taskQueue = <<>> /\ resultQueue = <<>> /\ uploadQueue = <<>>
    /\ worker.pc \in {"done", "dead"} /\ worker.out = <<>>
    /\ uploader.pc = "idle" /\ uploader.out = <<>>

C2_ComponentTerminalStays ==
    [][\A c \in Components :
          (task.exists /\ task.results[c].status \in ComponentTerminal)
          => task'.results[c].status \notin {"RUNNING", "PENDING"}]_vars

\* C3: a task status of SUCCESS, FAILED or PARTIAL_SUCCESS is never changed
\* by a later event or status poll.
C3_TaskTerminalStays ==
    [][(task.exists /\ task.status \in TerminalStates)
          => task'.status = task.status]_vars

\* C4: a task whose status is SUCCESS, FAILED or PARTIAL_SUCCESS has
\* progress 100.
C4_TerminalProgress100 ==
    (task.exists /\ task.status \in TerminalStates) => task.progress = 100

\* C5: once download was reported at 1.0 and both components were reported
\* terminal to the progress model, get_total_progress() is 100.
C5_WeightClosure ==
    (/\ pm.last["download"] >= One
     /\ \A c \in Components : obs.reported[c] \in ComponentTerminal)
    => GetTotalProgress(pm, task.params) = 100

\* the scenario of C6 has run to its end: video upload and subtitle
\* extraction requested, audio extracted, every batch raised, the video
\* upload succeeded, every event handled, no worker died and no poll found
\* the task stale
C6_Scenario ==
    /\ Quiescent
    /\ task.params.upload_video /\ task.params.extract_subtitle
    /\ obs.allRaised
    /\ obs.uploadResult["video"] = "ok"
    /\ ~obs.crashed
    /\ ~obs.wdFired

C7_TerminalTaskCleaned ==
    (task.exists /\ task.status \in TerminalStates) => ~tempDir

\* C8: terminal evaluation runs at most once for the task, and so does the
\* deletion of its temporary directory.
C8_EvaluatedOnce == obs.evalCount <= 1 /\ obs.rmCount <= 1

\* an event was handled after the evaluation that deleted the directory
C8_Witness == obs.evalCount = 1 /\ obs.rmCount = 1 /\ pm.exists /\ ~tempDir

\* C9: after the worker died and every event it had sent was handled, video
\* is not left RUNNING: evaluation has made it FAILED and the task terminal.
C9_OrphanForcedFailed ==
    (Quiescent /\ obs.crashed /\ ~obs.wdFired /\ wd = "idle")
    => /\ task.results["video"].status # "RUNNING"
       /\ (task.results["video"].status = "FAILED"
           => task.status \in {"PARTIAL_SUCCESS", "FAILED"})

\* the scenario of C10 has run to its end
C10_Scenario ==
    /\ Quiescent
    /\ task.params.upload_video /\ ~task.params.extract_subtitle
    /\ obs.uploadResult["video"] = "ok"
    /\ ~obs.wdFired

SuccessfulBatches ==
    {i \in DOMAIN pipeline.futures : pipeline.futures[i].state = "returned"}

\* C11: whatever the order in which the batch calls complete, the returned
\* transcript is in ascending start_ms order, holds every line of every
\* successful batch exactly once and holds no other line.
C11_ReassemblyOrder ==
    pipeline.pc = "returned" =>
        LET transcript == pipeline.transcript
        IN  /\ \A a, b \in DOMAIN transcript :
                  a < b => transcript[a].start_ms <= transcript[b].start_ms
            /\ \A i \in SuccessfulBatches :
                  \A k \in DOMAIN pipeline.futures[i].result :
                     Cardinality({a \in DOMAIN transcript :
                        transcript[a] = pipeline.futures[i].result[k]}) = 1
            /\ \A a \in DOMAIN transcript :
                  \E i \in SuccessfulBatches :
                     \E k \in DOMAIN pipeline.futures[i].result :
                        transcript[a] = pipeline.futures[i].result[k]

\* the last batch completed first with a line that starts before a line of
\* the first batch, and sorting changed the order of the collected blocks
C11_Witness ==
    /\ pipeline.pc = "returned"
    /\ Len(pipeline.all_srt_blocks) >= 2
    /\ pipeline.all_srt_blocks[1].srt_line[1]
         > pipeline.all_srt_blocks[Len(pipeline.all_srt_blocks)].srt_line[1]
    /\ pipeline.transcript # pipeline.all_srt_blocks

\* C12: when one batch call is overdue and every other batch was collected,
\* the scheduler can return without waiting for the overdue call.
C12_OverdueDoesNotBlock ==
    (/\ pipeline.pc = "collect"
     /\ \E i \in RunningCalls :
          /\ pipeline.futures[i].overdue
          /\ pipeline.handled = DOMAIN pipeline.futures \ {i}
          /\ pipeline.handled # {}
          /\ pipeline.all_srt_blocks # <<>>
          /\ \A j \in pipeline.handled : pipeline.futures[j].state = "returned")
    => ENABLED PipelineReturn
\* C13: applying the progress event (stage, p) twice in a row leaves the
\* progress model in the state one application leaves it in, with the same
\* total.
C13_StageIdempotence ==
    \A stage \in Stages, percent \in PMFractions :
        LET once == UpdateStageProgress(pm, task.params, stage, percent)
            twice == UpdateStageProgress(once, task.params, stage, percent)
        IN  /\ twice = once
            /\ GetTotalProgress(twice, task.params)
                 = GetTotalProgress(once, task.params)

\* a model that has completed a stage and holds a partial fraction of another
C13_Witness ==
    /\ pm.exists
    /\ pm.completed_stages # {}
    /\ \E stage \in ActiveStages(task.params) \ pm.completed_stages :
          0 < pm.last[stage] /\ pm.last[stage] < One

\* the task status the rule of C14 gives for a pair of component statuses
C14_Expected(video_status, subtitle_status) ==
    LET considered == {video_status, subtitle_status} \ {"SKIPPED"}
    IN  IF considered \subseteq {"SUCCESS"} THEN "SUCCESS"
        ELSE IF considered = {"SUCCESS", "FAILED"} THEN "PARTIAL_SUCCESS"
        ELSE "FAILED"

\* the task with its component statuses replaced
C14_WithStatuses(video_status, subtitle_status) ==
    [task EXCEPT !.results["video"].status = video_status,
                 !.results["subtitle"].status = subtitle_status]

\* C14: terminal evaluation assigns SUCCESS when every component that is not
\* SKIPPED is SUCCESS, PARTIAL_SUCCESS for one SUCCESS and one FAILED, and
\* FAILED when none is SUCCESS and one is FAILED, for every pair of
\* component statuses and in every evaluation the aggregator runs.
C14_FinalStatusRule ==
    [][obs'.evalCount > obs.evalCount =>
        /\ task'.status = C14_Expected(task'.results["video"].status,
                                       task'.results["subtitle"].status)
        /\ \A v, s \in ComponentTerminal :
             FinalStatus(C14_WithStatuses(v, s)) = C14_Expected(v, s)]_vars

\* an evaluation that found video FAILED and subtitle SUCCESS
C14_Witness ==
    /\ obs.evalCount = 1
    /\ task.results["video"].status = "FAILED"
    /\ task.results["subtitle"].status = "SUCCESS"
    /\ task.status = "PARTIAL_SUCCESS"
\* C15: the watchdog fails a task only when its updatedAt is older than the
\* stale threshold: whenever the status endpoint writes FAILED, more than
\* MAX_STUCK_DURATION minutes have passed since the task's last update.
C15_FreshNeverFailed ==
    [][(wd = "write" /\ wd' = "idle") => IsStuck(age')]_vars

\* C16: the task record is changed only by the front door or by the
\* aggregator handling one event, and no write of the status endpoint lands
\* inside that handling.
C16_WritesUnderLock ==
    [][(task.exists /\ task' # task)
          => (Len(resultQueue') < Len(resultQueue) /\ wd' = wd)]_vars
\* C18: the task's progress is an integer from 0 to 100 in every registry
\* state, for every combination of request flags and every sequence of
\* events, fractions above 1.0 and stages that are not active included.
C18_ProgressInRange == task.progress \in 0..100

\* a fraction above 1.0 was recorded for an active stage and a fraction for
\* a stage that is not active, with the task short of 100
C18_Witness ==
    /\ pm.exists
    /\ \E stage \in ActiveStages(task.params) : pm.last[stage] > One
    /\ \E stage \in Stages \ ActiveStages(task.params) : pm.last[stage] > 0
    /\ task.progress > 0 /\ task.progress < 100
\* C17: once every event of the task was handled, the task status and the
\* component statuses are those the same events give when handled in the
\* order they were put: the order of arrival makes no difference.
C17_OrderIndependent ==
    (worker.out = <<>> /\ uploader.out = <<>>)
    => FinalState(task)
        = FinalState(ConsumeAll(InitialTask(task.params), NoModel,
                                WorkerScript(task.params)
                                \o UploaderScript(task.params)))
\* events the media worker has still to put, and events on the result queue
PendingEvents ==
    {worker.out[i] : i \in DOMAIN worker.out}
    \cup {resultQueue[i] : i \in DOMAIN resultQueue}

\* the download of the source has failed, in a worker process that lives
C19_DownloadFailed ==
    /\ ~obs.crashed
    /\ \/ worker.pc = "fatal"
       \/ obs.fatalSent
       \/ \E e \in PendingEvents : e.type = "task_failed"

\* C19: a failed download makes the media worker send one task-level fatal
\* event and nothing else: no component FAILED event and no upload request;
\* once the aggregator has handled the fatal event the task is FAILED at
\* progress 100 with an error.
C19_FatalDownload ==
    C19_DownloadFailed =>
        /\ \A e \in PendingEvents : e.status # "FAILED"
        /\ \A c \in Components : task.results[c].status # "FAILED"
        /\ obs.enqueued = {} /\ uploadQueue = <<>> /\ uploader = IdleUploader
        /\ obs.fatalCount <= 1
        /\ (worker.pc = "done" /\ obs.fatalCount = 0)
             => worker.out = <<TaskFailedEvent>>
        /\ (worker.pc = "done" /\ obs.fatalCount = 1) => worker.out = <<>>
        /\ (obs.fatalCount = 1 /\ \A e \in PendingEvents : e.type # "task_failed")
             => /\ task.status = "FAILED"
                /\ task.progress = 100
                /\ task.error # "null"

\* the fatal event of a failed download was handled, with no poll involved
C19_Witness ==
    /\ C19_DownloadFailed
    /\ obs.fatalSent /\ resultQueue = <<>>
    /\ ~obs.wdFired /\ wd = "idle"
    /\ task.status = "FAILED" /\ task.error = "FATAL_ERROR"
    /\ task.results["video"].status = "RUNNING"

\* audio extraction has failed, in a worker process that lives
C20_AudioFailed ==
    /\ ~obs.crashed
    /\ \/ \E e \in PendingEvents : e.error = "AUDIO_EXTRACTION_FAILED"
       \/ task.results["subtitle"].error = "AUDIO_EXTRACTION_FAILED"

\* C20: when audio extraction fails the media worker reports subtitle FAILED
\* with code AUDIO_EXTRACTION_FAILED, sends no task-level fatal event, runs
\* no transcription, and goes on to the video: the upload is enqueued when
\* upload_video was requested, and video is reported SKIPPED when it was not.
C20_AudioFailureIsolated ==
    C20_AudioFailed =>
        /\ \A e \in PendingEvents :
              e.error = "AUDIO_EXTRACTION_FAILED"
              => (e.component = "subtitle" /\ e.status = "FAILED")
        /\ task.results["subtitle"].error = "AUDIO_EXTRACTION_FAILED"
              => task.results["subtitle"].status = "FAILED"
        /\ ~obs.fatalSent /\ worker.pc # "fatal"
        /\ \A e \in PendingEvents : e.type # "task_failed"
        /\ worker.pc \notin {"step4", "schedule", "batches", "sub_failed",
                              "put_subtitle"}
        /\ "subtitle" \notin obs.enqueued
        /\ (worker.pc = "done" /\ worker.out = <<>>)
              => IF worker.params.upload_video
                 THEN "video" \in obs.enqueued
                 ELSE /\ "video" \notin obs.enqueued
                      /\ resultQueue = <<>>
                            => task.results["video"].status = "SKIPPED"

\* audio extraction failed, the video was uploaded and every event handled
C20_Witness ==
    /\ C20_AudioFailed
    /\ Quiescent
    /\ task.results["subtitle"].status = "FAILED"
    /\ task.results["video"].status = "SUCCESS"
    /\ task.status = "PARTIAL_SUCCESS"

\* the steps of process_unified_task that precede the end of audio extraction
C21_BeforeAudioDone == {"idle", "step1", "connect", "stream", "fatal",
                        "step2", "ffmpeg"}

\* the steps of process_unified_task from preprocessing onwards
C21_FromPreprocessing == {"step4", "schedule", "batches", "sub_failed",
                          "put_subtitle"}

\* C21: the video upload request is put on the upload queue only after the
\* audio-extraction step has finished and before preprocessing and batch
\* transcription start, so the upload worker never holds the source file while
\* audio extraction runs.
C21_UploadAfterAudio ==
    /\ worker.pc \in C21_BeforeAudioDone =>
            /\ "video" \notin obs.enqueued
            /\ uploadQueue = <<>>
            /\ uploader.component # "video"
    /\ (worker.pc \in C21_FromPreprocessing /\ worker.params.upload_video) =>
            "video" \in obs.enqueued

\* audio was extracted, the upload worker holds the source file and
\* preprocessing has not started
C21_Witness ==
    /\ worker.pc = "step4" /\ worker.raw_audio /\ worker.out = <<>>
    /\ uploader.component = "video"
    /\ "video" \in obs.enqueued

\* C22: an attempt that fails with a non-retryable HTTP status ends the call
\* at once: no further attempt and no backoff wait follow it.
C22_NonRetryableFailsAtOnce ==
    \A k \in 1..Len(batch.outcomes) :
        batch.outcomes[k] = "other_status" =>
            /\ k = Len(batch.outcomes)
            /\ batch.pc = "raised"
            /\ Len(batch.slept) = k - 1

\* C23: a call makes at most max_retries attempts, waits 5 * 2^k seconds after
\* failed attempt k when another attempt follows, does not wait after its
\* last attempt, and makes no attempt after one that succeeded.
C23_RetryBudget ==
    /\ Len(batch.outcomes) <= max_retries
    /\ \A k \in 1..Len(batch.slept) : batch.slept[k] = 5 * 2 ^ (k - 1)
    /\ batch.pc = "attempt" => Len(batch.slept) = Len(batch.outcomes)
    /\ (batch.pc \in {"sleep", "returned", "raised"} /\ batch.outcomes # <<>>)
            => Len(batch.slept) = Len(batch.outcomes) - 1
    /\ \A k \in 1..Len(batch.outcomes) :
            batch.outcomes[k] = "valid" =>
                k = Len(batch.outcomes) /\ batch.pc = "returned"
    /\ (batch.pc = "raised"
            /\ \A k \in 1..Len(batch.outcomes) :
                    batch.outcomes[k] \in RetryableStatus)
            => Len(batch.outcomes) \in {0, max_retries}

\* three attempts met a retryable status, with waits of 5 s and 10 s
C23_Witness ==
    /\ batch.pc = "raised"
    /\ batch.outcomes = <<"retryable_status", "retryable_status",
                          "retryable_status">>
    /\ batch.slept = <<5, 10>>

\* C24: the call returns a list only from an attempt whose response was
\* received and validated; with no unit encoded, with every attempt failed or
\* with an unexpected exception it raises, so a returned empty list is a valid
\* response with no line.
C24_ListOnlyFromValidResponse ==
    /\ batch.pc = "returned" =>
            /\ batch.validated
            /\ batch.outcomes # <<>>
            /\ batch.outcomes[Len(batch.outcomes)] = "valid"
    /\ batch.pc # "returned" => batch.result = <<>> /\ ~batch.validated
    /\ (batch.pc \notin {"idle", "attempt", "sleep"}
            /\ (batch.parts = 0
                \/ batch.outcomes[Len(batch.outcomes)] # "valid"))
            => batch.pc = "raised"

\* after a failed attempt, a valid response with no line is returned
C24_Witness ==
    /\ batch.pc = "returned"
    /\ batch.result = <<>>
    /\ Len(batch.outcomes) = 2

\* the pipeline has returned and every batch call it submitted raised
C25_EveryBatchFailed ==
    /\ pipeline.pc = "returned"
    /\ \A i \in DOMAIN pipeline.futures : pipeline.futures[i].state = "raised"

\* C25: when every batch fails the pipeline returns the empty transcript
\* instead of raising, and the media worker reports subtitle FAILED with code
\* SUBTITLE_PIPELINE_FAILED, as it does when there was no work unit at all.
C25_TotalFailure ==
    C25_EveryBatchFailed =>
        /\ pipeline.transcript = <<>>
        /\ worker.pc \in {"pipeline", "done"}
        /\ worker.pc = "done" =>
                worker.out =
                    <<ComponentUpdate("subtitle", "FAILED", {},
                                      "SUBTITLE_PIPELINE_FAILED"),
                      ProgressEvent("subtitle_pipeline", One)>>

\* two batches were submitted, both raised, and the worker has reported
C25_Witness ==
    /\ C25_EveryBatchFailed
    /\ Len(pipeline.futures) = 2
    /\ worker.pc = "done"

\* the pipeline has returned, one batch raised and one returned a line
C26_PartialLoss ==
    /\ pipeline.pc = "returned"
    /\ \E i \in DOMAIN pipeline.futures : pipeline.futures[i].state = "raised"
    /\ \E i \in DOMAIN pipeline.futures :
            /\ pipeline.futures[i].state = "returned"
            /\ pipeline.futures[i].result # <<>>

\* C26: when some batches fail and one returns a line, the transcript is not
\* empty and holds exactly the lines of the batches that returned, and the
\* media worker does not report subtitle FAILED.
C26_PartialLossNotFatal ==
    C26_PartialLoss =>
        /\ pipeline.transcript # <<>>
        /\ {pipeline.transcript[k] : k \in DOMAIN pipeline.transcript} =
                UNION {{pipeline.futures[i].result[k] :
                            k \in DOMAIN pipeline.futures[i].result} :
                       i \in SuccessfulBatches}
        /\ \A k \in DOMAIN worker.out : worker.out[k].status # "FAILED"
        /\ worker.pc # "pipeline" =>
                \E k \in DOMAIN worker.out :
                    worker.out[k].output = {<<"contentBase64", "srt">>}

\* one batch raised, the other returned a line, and the worker has reported
C26_Witness ==
    /\ C26_PartialLoss
    /\ worker.pc # "pipeline"

RECURSIVE C28_Concat(_)
C28_Concat(groups) ==
    IF groups = <<>> THEN <<>>
    ELSE C28_Concat(SubSeq(groups, 1, Len(groups) - 1)) \o groups[Len(groups)]

\* C28: N >= 1 work units and batch size B give ceil(N/B) batches whose
\* concatenation in index order is the input list; every batch but the last
\* has B units and no batch is empty.
C28_Batching ==
    (pipeline.pc = "submit" /\ pipeline.batch_size > 0) =>
        LET N == Len(pipeline.chunk_files)
            B == pipeline.batch_size
            groups == pipeline.chunk_groups
        IN  /\ N >= 1
            /\ Len(groups) = (N + B - 1) \div B
            /\ pipeline.num_groups = Len(groups)
            /\ C28_Concat(groups) = pipeline.chunk_files
            /\ \A g \in 1..(Len(groups) - 1) : Len(groups[g]) = B
            /\ \A g \in 1..Len(groups) : Len(groups[g]) \in 1..B

\* five units in batches of two: two full batches and a last one of one unit
C28_Witness ==
    /\ pipeline.pc = "submit"
    /\ Len(pipeline.chunk_files) = 5
    /\ pipeline.batch_size = 2
    /\ Len(pipeline.chunk_groups) = 3
    /\ Len(pipeline.chunk_groups[3]) = 1

\* the upload requests the upload worker dequeued and is done with
HandledUploads ==
    {c \in obs.enqueued :
        /\ \A k \in DOMAIN uploadQueue : uploadQueue[k] # c
        /\ uploader.component # c}

\* C29: once the upload worker is done with a request it dequeued, it has
\* deleted the request's local file, whichever way the handling ended.
C29_FileDeleted == \A c \in HandledUploads : c \in obs.unlinked

\* C30: for every request it dequeued and is done with, the upload worker has
\* emitted the terminal status event of the request's component, SUCCESS or
\* FAILED, and put it on the result queue.
C30_TerminalEventEmitted ==
    \A c \in HandledUploads :
        /\ obs.uploadResult[c] \in {"ok", "failed"}
        /\ \A k \in DOMAIN uploader.out : uploader.out[k].component # c

C32_LastUploadCompleted ==
    /\ worker.pc = "done" /\ worker.out = <<>>
    /\ uploadQueue = <<>>
    /\ uploader.pc = "idle"
    /\ obs.enqueued # {}
    /\ obs.unlinked = obs.enqueued

\* C32: after the upload worker has completed the last upload a task enqueues,
\* its route cache holds no entry for the task.
C32_CacheEvicted == C32_LastUploadCompleted => ~uploader.task_proxy_cache

\* the updates of component c handled so far that carried key k
C33_Carrying(c, k) ==
    {i \in DOMAIN obs.merged :
        /\ obs.merged[i].component = c
        /\ \E kv \in obs.merged[i].output : kv[1] = k}

\* the latest of them
C33_Latest(c, k) ==
    CHOOSE i \in C33_Carrying(c, k) : \A j \in C33_Carrying(c, k) : j <= i

\* C33: after any sequence of component updates, a component's output holds
\* every key an update of that component carried, with the value of the latest
\* update that carried it, and nothing else; an update without output or with
\* other keys removes no key.
C33_OutputMerged ==
    \A c \in Components :
        task.results[c].output =
            {kv \in OutputKeys \X OutputValues :
                /\ C33_Carrying(c, kv[1]) # {}
                /\ kv \in obs.merged[C33_Latest(c, kv[1])].output}

\* subtitle got contentBase64, then shareCode with a new value for neither,
\* then an update without output: both keys are held
C33_Witness ==
    /\ Len(obs.merged) = 3
    /\ obs.merged[1] = [component |-> "subtitle",
                        output |-> {<<"contentBase64", "old">>}]
    /\ obs.merged[2] = [component |-> "subtitle",
                        output |-> {<<"shareCode", "new">>}]
    /\ obs.merged[3] = [component |-> "subtitle", output |-> {}]
    /\ task.results["subtitle"].output =
            {<<"contentBase64", "old">>, <<"shareCode", "new">>}

\* C34: in a new progress model video_upload (40) is active iff upload_video,
\* subtitle_pipeline (30) iff extract_subtitle, subtitle_upload (10) iff
\* extract_subtitle and upload_subtitle, download (20) iff another stage is
\* active, and the total weight is the sum of the active weights, or 100 when
\* no stage is active, so it is never 0.
C34_ActiveWeights ==
    pm.exists =>
        LET p == task.params
            active == ActiveStages(p)
        IN  /\ "video_upload" \in active <=> p.upload_video
            /\ "subtitle_pipeline" \in active <=> p.extract_subtitle
            /\ "subtitle_upload" \in active
                    <=> (p.extract_subtitle /\ p.upload_subtitle)
            /\ "download" \in active <=> active \ {"download"} # {}
            /\ ActiveWeight(p, "download") = (IF "download" \in active THEN 20 ELSE 0)
            /\ ActiveWeight(p, "video_upload") = (IF p.upload_video THEN 40 ELSE 0)
            /\ ActiveWeight(p, "subtitle_pipeline")
                    = (IF p.extract_subtitle THEN 30 ELSE 0)
            /\ ActiveWeight(p, "subtitle_upload")
                    = (IF p.extract_subtitle /\ p.upload_subtitle THEN 10 ELSE 0)
            /\ TotalActiveWeight(p) =
                    (IF ~p.upload_video /\ ~p.extract_subtitle
                     THEN 100
                     ELSE 20 + (IF p.upload_video THEN 40 ELSE 0)
                             + (IF p.extract_subtitle THEN 30 ELSE 0)
                             + (IF p.extract_subtitle /\ p.upload_subtitle
                                THEN 10 ELSE 0))
            /\ TotalActiveWeight(p) > 0

\* a model of a task that neither uploads nor extracts, upload_subtitle set:
\* no stage is active and the total weight is 100
C34_Witness ==
    /\ pm.exists
    /\ ~task.params.upload_video /\ ~task.params.extract_subtitle
    /\ task.params.upload_subtitle
    /\ ActiveStages(task.params) = {}
    /\ TotalActiveWeight(task.params) = 100

\* completed_weight plus the contributions of the active stages not yet
\* completed, in units of 1/One
C35_Total(m, p) ==
    m.completed_weight * One
    + Contribution(m, p, "download") + Contribution(m, p, "video_upload")
    + Contribution(m, p, "subtitle_pipeline") + Contribution(m, p, "subtitle_upload")

\* C35: get_total_progress() is 100 * total / total_active_weight rounded to
\* the nearest integer and clamped to [0, 100]: the reported value is within
\* one half of the exact quotient, or 100 when the quotient rounds above 100.
C35_RoundedProgress ==
    pm.exists =>
        LET n == 100 * C35_Total(pm, task.params)
            d == TotalActiveWeight(task.params) * One
            v == GetTotalProgress(pm, task.params)
        IN  /\ v \in 0..100
            /\ IF 2 * n >= 2 * 100 * d - d
               THEN v = 100
               ELSE /\ 2 * (v * d - n) <= d
                    /\ 2 * (n - v * d) <= d

\* the weights of a set of stages, summed
C36_Weight(stages) ==
    (IF "download" \in stages THEN PROGRESS_WEIGHTS["download"] ELSE 0)
    + (IF "video_upload" \in stages THEN PROGRESS_WEIGHTS["video_upload"] ELSE 0)
    + (IF "subtitle_pipeline" \in stages THEN PROGRESS_WEIGHTS["subtitle_pipeline"] ELSE 0)
    + (IF "subtitle_upload" \in stages THEN PROGRESS_WEIGHTS["subtitle_upload"] ELSE 0)

\* C36: a progress event whose fraction is lower than the stage's last
\* recorded fraction leaves the whole model unchanged; a completed stage
\* stays completed, and completed_weight grows by exactly the weights of the
\* stages a step newly completes, so each weight is added at most once.
C36_StaleEventIgnored ==
    [][/\ obs'.stale => pm' = pm
       /\ pm.completed_stages \subseteq pm'.completed_stages
       /\ pm'.completed_weight
            = pm.completed_weight
              + C36_Weight(pm'.completed_stages \ pm.completed_stages)]_vars

\* a lower fraction has just arrived for a stage of a model that already
\* holds a completed stage and an unfinished one
C36_Witness ==
    /\ obs.stale
    /\ pm.completed_stages # {}
    /\ \E s \in ActiveStages(task.params) :
            s \notin pm.completed_stages /\ pm.last[s] > 0

\* C37: the aggregator holds a progress model only for a task that is not
\* terminal: a task whose status is SUCCESS, FAILED or PARTIAL_SUCCESS has no
\* entry in task_progress_models, also after a fatal task event and after
\* events handled once the task is terminal.
C37_NoModelForTerminalTask ==
    (task.exists /\ task.status \in TerminalStates) => ~pm.exists

\* the end offset line i of the response has before line 967: its own, or
\* the next line's start, or the end of the batch's last work unit
C38_Given(i) ==
    IF batch.subtitles[i].end_ms # None THEN batch.subtitles[i].end_ms
    ELSE IF i < Len(batch.subtitles) THEN batch.subtitles[i + 1].start_ms
    ELSE batch.last_end_ms

\* C38: every line a successful batch call returns has an end offset not
\* before its start offset: a missing end is the start of the response's next
\* line, or the end of the batch's last work unit for the final line, and an
\* end that precedes the start is replaced by start + 250 ms.
C38_EndNotBeforeStart ==
    batch.pc = "returned" =>
        /\ Len(batch.result) = Len(batch.subtitles)
        /\ \A i \in DOMAIN batch.result :
            LET line == batch.result[i]
                start_ms == batch.subtitles[i].start_ms
            IN  /\ line.start_ms = start_ms
                /\ line.end_ms >= line.start_ms
                /\ start_ms <= C38_Given(i) => line.end_ms = C38_Given(i)
                /\ start_ms > C38_Given(i) => line.end_ms = start_ms + 250

\* a returned response of two lines without end offsets: the first starts
\* after the second and gets start + 250, the second ends with the batch's
\* last work unit
C38_Witness ==
    /\ batch.pc = "returned"
    /\ Len(batch.subtitles) = 2
    /\ batch.subtitles[1].end_ms = None /\ batch.subtitles[2].end_ms = None
    /\ batch.subtitles[1].start_ms > batch.subtitles[2].start_ms
    /\ batch.result[1].end_ms = batch.subtitles[1].start_ms + 250
    /\ batch.subtitles[2].start_ms < batch.last_end_ms
    /\ batch.result[2].end_ms = batch.last_end_ms

\* C39: without a crash of the worker, once the media worker and the upload
\* worker have no step left for the task and every queue is empty, the
\* aggregator has made the task SUCCESS, FAILED or PARTIAL_SUCCESS: no path
\* ends with the task short of a terminal status, which it could then never
\* reach.
C39_EveryPathEndsTerminal ==
    (Quiescent /\ ~obs.crashed /\ ~obs.wdFired /\ wd = "idle")
    => task.status \in TerminalStates

====
